---------------------------- MODULE Spec2Model ----------------------------
(***************************************************************************)
(* PlotThePlot: the analyze pipeline of src/api/index.py (token check,     *)
(* metadata and text fetch, LLM extraction and validation with bounded     *)
(* retry, search recording, response) together with the search-history     *)
(* store and analytics view of src/api/database.py.                        *)
(*                                                                         *)
(* The server answers one analyze request after another.  Every external   *)
(* collaborator (Project Gutenberg, the LLM, SQLite) answers               *)
(* nondeterministically with one of the outcomes the code distinguishes.   *)
(***************************************************************************)
EXTENDS Integers, Sequences, FiniteSets, TLC

(* ------------------------------ bounds -------------------------------- *)

\* Number of analyze requests served in one behaviour.
MaxRequests == 2

\* Book ids sent by clients range over 0..MaxBookId (0 is the falsy id).
MaxBookId == 2

(* ------------------------- program constants -------------------------- *)

\* PlotThePlot.__init__: self.max_retries = 5
max_retries == 5

\* PlotThePlot.__init__: self.retry_delay = 5
retry_delay == 5

\* The only status fetch_gutenberg_text accepts.
HTTP_OK == 200

\* Statuses the text source answers with: 200, a 2xx other than 200, 404, 500.
Statuses == {200, 204, 404, 500}

\* The kinds of Authorization header analyze() distinguishes.
Tokens == {"none", "expired", "invalid", "valid"}

\* payload['user_id'] of the valid tokens: one registered user.
Users == {1}

BookIds == 0..MaxBookId

(* ----------------------------- exceptions ----------------------------- *)

NoExc == [type |-> "", msg |-> ""]

GenericMessage == "An unexpected error occurred while analyzing the book. Please try again later."

\* raise ValueError("Could not fetch text from Project Gutenberg.")
SourceUnavailable == [type |-> "ValueError", msg |-> "Could not fetch text from Project Gutenberg."]

\* raise ValueError("Response is not a JSON object.")
NotAnObject == [type |-> "ValueError", msg |-> "Response is not a JSON object."]

\* model.generate_content raising (google.api_core ServiceUnavailable etc.)
LLMNetworkError == [type |-> "ServiceUnavailable", msg |-> "503 The model is overloaded."]

\* result.candidates[0].content.parts[0] on an answer without parts
NoFunctionCall == [type |-> "IndexError", msg |-> "list index out of range"]

\* soup.find("meta", ...) is None, then None["content"]
NoTitleMarker == [type |-> "TypeError", msg |-> "'NoneType' object is not subscriptable"]

\* soup.find("a", rel=...) is None, then None.get_text
NoAuthorMarker == [type |-> "AttributeError", msg |-> "'NoneType' object has no attribute 'get_text'"]

\* requests.get raising
ConnectionError == [type |-> "ConnectionError", msg |-> "Connection aborted."]

\* SQLAlchemy raising from commit / execute
OperationalError == [type |-> "OperationalError", msg |-> "(sqlite3.OperationalError) database is locked"]

(* ------------------------------ values -------------------------------- *)

\* A Python dict with string keys is a function on its keys.
EmptyDict == [k \in {} |-> ""]

\* dict[key] = value
SetItem(d, key, value) ==
  [k \in DOMAIN d \cup {key} |-> IF k = key THEN value ELSE d[k]]

\* A parsed LLM payload: isDict is isinstance(parsed, dict), d its items.
NoValue == [isDict |-> FALSE, d |-> EmptyDict]

\* get_schema()["required"]
ExtractionRequired == {"characters", "relations", "summary"}

\* get_validation_schema()["required"]
ValidationRequired == {"known_story", "issues", "notes", "score"}

\* What one model.generate_content call can yield.
LLMOutcomes == {"full_object", "partial_object", "non_object",
                "no_function_call", "network_error"}

\* result = model.generate_content(...); fc = ...parts[0].function_call
CallRaises(o) == o \in {"network_error", "no_function_call"}

CallExc(o) == IF o = "network_error" THEN LLMNetworkError ELSE NoFunctionCall

\* parsed = type(fc).to_dict(fc)["args"], for a call constrained to `required`
Parsed(o, required) ==
  CASE o = "full_object" ->
         [isDict |-> TRUE, d |-> [k \in required |-> "v"]]
    [] o = "partial_object" ->
         [isDict |-> TRUE,
          d |-> [k \in required \ {"summary", "score"} |-> "v"]]
    [] OTHER -> [isDict |-> FALSE, d |-> EmptyDict]

\* str(n) for a natural number
Digit(n) == CASE n = 0 -> "0" [] n = 1 -> "1" [] n = 2 -> "2" [] n = 3 -> "3"
              [] n = 4 -> "4" [] n = 5 -> "5" [] n = 6 -> "6" [] n = 7 -> "7"
              [] n = 8 -> "8" [] n = 9 -> "9"

RECURSIVE Str(_)
Str(n) == IF n < 10 THEN <<Digit(n)>> ELSE Str(n \div 10) \o <<Digit(n % 10)>>

\* The og:title content of the ebooks page of book b.
TitleOf(b) == [title_of |-> b]

AuthorOf(b) == [author_of |-> b]

NoMetadata == [title |-> TitleOf(0), author |-> AuthorOf(0)]

\* The body served at the primary / fallback URL of book b.
Body(b, url) == [book |-> b, url |-> url]

NoText == Body(0, "")

NoResponse == [status |-> 0, body |-> EmptyDict]

(* --------------------------- decisions in code ------------------------- *)

\* Mutant of PrimaryOk: any 2xx status of the primary URL is taken as success.
PrimaryOk_Any2xx(status) == status \in 200..299

\* fetch_gutenberg_text: if resp.status_code == 200
PrimaryOk(status) == status = HTTP_OK

\* Mutant of FallbackOk: the fallback answer is returned whatever its status.
FallbackOk_Unchecked(status) == TRUE

\* fetch_gutenberg_text: if resp_fallback.status_code == 200
FallbackOk(status) == status = HTTP_OK

\* Mutant of RetryAgain: the loop goes round once more.
RetryAgain_OneMore(a) == a < max_retries

\* Mutant of RetryAgain: the loop gives up one attempt early.
RetryAgain_OneShort(a) == a < max_retries - 2

\* analyze_text / validate_json: if attempt < self.max_retries - 1
RetryAgain(a) == a < max_retries - 1

\* analyze_text: isinstance(parsed, dict)
IsObject(parsed) == parsed.isDict

\* Mutant of AfterExtract: validation runs whatever the flag.
AfterExtract_Always(flag) == "validate"

\* analyze: if validate_flag: ... validate_json ...; then db.add_search
AfterExtract(flag) == IF flag THEN "validate" ELSE "add_search"

\* Mutant of AfterMetadata: extraction starts without the text fetch.
AfterMetadata_SkipText == "extract"

\* analyze: metadata is fetched first, then the text
AfterMetadata == "fetch_text"

\* analyze: except ValueError -> 400 with str(e); except Exception -> 500
ErrorResponse(e) ==
  IF e.type = "ValueError"
    THEN [status |-> 400, body |-> [error |-> e.msg]]
    ELSE [status |-> 500, body |-> [error |-> GenericMessage]]

\* analyze: the Authorization header and token checks, then the book_id check.
\* The response returned before the try block, or NoResponse to go on.
EarlyResponse(token, b) ==
  IF token = "none"
    THEN [status |-> 401, body |-> [error |-> "Please log in to analyze books"]]
  ELSE IF token = "expired"
    THEN [status |-> 401, body |-> [error |-> "Token has expired"]]
  ELSE IF token = "invalid"
    THEN [status |-> 401, body |-> [error |-> "Invalid token"]]
  ELSE IF b = 0
    THEN [status |-> 400, body |-> [error |-> "Please provide a book ID to analyze"]]
  ELSE NoResponse

(* ------------------------------- state -------------------------------- *)

VARIABLES
  req,             \* number of the request being served (0: none yet)
  pc,              \* where analyze() stands; "idle" between requests
  user_id,         \* payload['user_id']
  book_id,         \* request.json.get("book_id")
  validate_flag,   \* request.json.get("validate", False)
  metadata,        \* analyze: metadata
  text,            \* analyze: text
  primary_status,  \* fetch_gutenberg_text: resp.status_code (0: no answer)
  fallback_status, \* fetch_gutenberg_text: resp_fallback.status_code
  result,          \* analyze: result
  attempt,         \* the loop variable of the running orchestrator
  exc,             \* the exception caught by the latest failed attempt
  raised,          \* the exception that reached analyze's except clauses
  response,        \* what analyze returned for request req
  search_history,  \* rows of table search_history
  view_exists,     \* whether view book_analytics exists
  trace,           \* history: the external calls of request req, in order
  slept,           \* history: total time.sleep of request req
  failedAt,        \* history: the step at which request req failed
  answered,        \* history: the status each request was answered with,
                   \* and whether the response carried a validation field
  plotters,        \* the PlotThePlot objects alive, by object id
  genai_api_key,   \* the key genai.configure last set (library-wide)
  creq,            \* the analyze requests running side by side
  vj_args,         \* validate_json alone: story_text, generated_json, metadata
  vj,              \* validate_json alone: its position and locals
  vj_hist,         \* history: invocations, prompts sent, the input as first given
  clock,           \* datetime.utcnow()
  dbt,             \* where each thread using the Database object stands
  trending,        \* the latest answer of get_trending_books
  db_outcome       \* how the latest add_search ended

locals == <<user_id, book_id, validate_flag>>
fetched == <<metadata, text, primary_status, fallback_status>>
store == <<search_history, view_exists>>

\* The state of the request served by analyze(), without the store.
request == <<req, pc, locals, fetched, result, attempt, exc, raised, response,
             trace, slept, failedAt, answered>>

\* The orchestrators of requests running side by side.
conc == <<plotters, genai_api_key, creq>>

\* validate_json invoked on its own.
vjv == <<vj_args, vj, vj_hist>>

\* Threads calling add_search and get_trending_books.
dbv == <<clock, dbt, trending, db_outcome>>

\* What the steps of analyze() on the request in hand leave alone.
aux == <<conc, vjv, dbv>>

\* What the steps of the requests running side by side leave alone.
outside_conc == <<request, store, vjv, dbv>>

\* What the steps of validate_json on its own leave alone.
outside_vj == <<request, store, conc, dbv>>

\* What the steps of the Database threads leave alone.
outside_db == <<request, conc, vjv>>

vars == <<request, store, aux>>

\* No request runs side by side with the one in hand.
ConcIdle ==
  /\ plotters = EmptyDict
  /\ genai_api_key = ""
  /\ creq = EmptyDict

\* db = Database(): tables created, view created, no search recorded yet;
\* no request received.
MainInit ==
  /\ req = 0
  /\ pc = "idle"
  /\ user_id = 0
  /\ book_id = 0
  /\ validate_flag = FALSE
  /\ metadata = NoMetadata
  /\ text = NoText
  /\ primary_status = 0
  /\ fallback_status = 0
  /\ result = NoValue
  /\ attempt = 0
  /\ exc = [attempt |-> 0, e |-> NoExc]
  /\ raised = NoExc
  /\ response = NoResponse
  /\ search_history = <<>>
  /\ view_exists = TRUE
  /\ trace = <<>>
  /\ slept = 0
  /\ failedAt = ""
  /\ answered = [q \in 1..MaxRequests |-> [status |-> 0, validation |-> FALSE]]

\* validate_json is not being invoked on its own.
VjIdle ==
  /\ vj_args = EmptyDict
  /\ vj = EmptyDict
  /\ vj_hist = EmptyDict

\* No thread is inside the Database object.
DbIdle ==
  /\ clock = 0
  /\ dbt = EmptyDict
  /\ trending = EmptyDict
  /\ db_outcome = EmptyDict

Init ==
  /\ MainInit
  /\ ConcIdle
  /\ VjIdle
  /\ DbIdle

\* What the history keeps of a response.
Summary(resp) == [status |-> resp.status,
                  validation |-> "validation" \in DOMAIN resp.body]

\* analyze returns `resp` for the request in hand.
Answer(resp) ==
  /\ response' = resp
  /\ answered' = [answered EXCEPT ![req] = Summary(resp)]
  /\ pc' = "idle"

\* An exception e leaves the try block of analyze at step `step`.
Fail(e, step) ==
  /\ raised' = e
  /\ failedAt' = step
  /\ Answer(ErrorResponse(e))

(* ------------------------------ actions ------------------------------- *)

\* POST /api/analyze arrives: the header, token and book_id checks.
Receive ==
  /\ pc = "idle"
  /\ UNCHANGED aux
  /\ req < MaxRequests
  /\ \E token \in Tokens, u \in Users, b \in BookIds, v \in BOOLEAN :
       LET early == EarlyResponse(token, b) IN
       /\ req' = req + 1
       /\ user_id' = IF token = "valid" THEN u ELSE 0
       /\ book_id' = b
       /\ validate_flag' = v
       /\ metadata' = NoMetadata
       /\ text' = NoText
       /\ primary_status' = 0
       /\ fallback_status' = 0
       /\ result' = NoValue
       /\ attempt' = 0
       /\ exc' = [attempt |-> 0, e |-> NoExc]
       /\ raised' = NoExc
       /\ trace' = <<>>
       /\ slept' = 0
       /\ IF early.status # 0
            THEN /\ response' = early
                 /\ answered' = [answered EXCEPT ![req + 1] = Summary(early)]
                 /\ failedAt' = IF early.status = 401 THEN "auth" ELSE "book_id"
                 /\ pc' = "idle"
            ELSE /\ response' = NoResponse
                 /\ failedAt' = ""
                 /\ pc' = "fetch_metadata"
                 /\ UNCHANGED answered
  /\ UNCHANGED store

\* metadata = fetch_gutenberg_metadata(book_id)
FetchMetadata ==
  /\ pc = "fetch_metadata"
  /\ UNCHANGED aux
  /\ \E connected \in BOOLEAN, has_title \in BOOLEAN, has_author \in BOOLEAN :
       /\ trace' = IF connected /\ has_title /\ has_author
                     THEN trace \o <<"get_metadata", "metadata_ok">>
                     ELSE Append(trace, "get_metadata")
       /\ IF ~connected THEN
            /\ Fail(ConnectionError, "metadata")
            /\ UNCHANGED metadata
          ELSE IF ~has_title THEN
            /\ Fail(NoTitleMarker, "metadata")
            /\ UNCHANGED metadata
          ELSE IF ~has_author THEN
            /\ Fail(NoAuthorMarker, "metadata")
            /\ UNCHANGED metadata
          ELSE
            /\ metadata' = [title |-> TitleOf(book_id), author |-> AuthorOf(book_id)]
            /\ pc' = AfterMetadata
            /\ UNCHANGED <<raised, failedAt, response, answered>>
  /\ UNCHANGED <<req, locals, text, primary_status, fallback_status, result,
                 attempt, exc, store, slept>>

\* fetch_gutenberg_text: resp = requests.get(primary_url)
FetchTextPrimary ==
  /\ pc = "fetch_text"
  /\ UNCHANGED aux
  /\ \/ /\ trace' = Append(trace, "get_primary")
        /\ Fail(ConnectionError, "text")
        /\ UNCHANGED <<text, primary_status>>
     \/ \E s \in Statuses :
          /\ primary_status' = s
          /\ IF PrimaryOk(s)
               THEN /\ text' = Body(book_id, "primary")
                    /\ trace' = trace \o <<"get_primary", "text_ok">>
                    /\ pc' = "extract"
               ELSE /\ trace' = Append(trace, "get_primary")
                    /\ pc' = "fetch_fallback"
                    /\ UNCHANGED text
          /\ UNCHANGED <<raised, failedAt, response, answered>>
  /\ UNCHANGED <<req, locals, metadata, fallback_status, result, attempt, exc,
                 store, slept>>

\* fetch_gutenberg_text: resp_fallback = requests.get(fallback_url)
FetchTextFallback ==
  /\ pc = "fetch_fallback"
  /\ UNCHANGED aux
  /\ \/ /\ trace' = Append(trace, "get_fallback")
        /\ Fail(ConnectionError, "text")
        /\ UNCHANGED <<text, fallback_status>>
     \/ \E s \in Statuses :
          /\ fallback_status' = s
          /\ IF FallbackOk(s)
               THEN /\ text' = Body(book_id, "fallback")
                    /\ trace' = trace \o <<"get_fallback", "text_ok">>
                    /\ pc' = "extract"
                    /\ UNCHANGED <<raised, failedAt, response, answered>>
               ELSE /\ trace' = Append(trace, "get_fallback")
                    /\ Fail(SourceUnavailable, "text")
                    /\ UNCHANGED text
  /\ UNCHANGED <<req, locals, metadata, primary_status, result, attempt, exc,
                 store, slept>>

\* The exception one attempt of analyze_text raises inside its try block
\* on LLM outcome o (NoExc: it returns parsed).
ExtractError(o) ==
  IF CallRaises(o) THEN CallExc(o)
  ELSE IF ~IsObject(Parsed(o, ExtractionRequired)) THEN NotAnObject
  ELSE NoExc

\* The exception one attempt of validate_json raises inside its try block.
ValidateError(o) == IF CallRaises(o) THEN CallExc(o) ELSE NoExc

\* except Exception as e: sleep and go round again, or re-raise.
Caught(e, sleep_pc, step) ==
  /\ exc' = [attempt |-> attempt, e |-> e]
  /\ IF RetryAgain(attempt)
       THEN /\ pc' = sleep_pc
            /\ UNCHANGED <<raised, failedAt, response, answered>>
       ELSE Fail(e, step)

\* plotter.analyze_text(text): one pass of the for loop.
ExtractAttempt ==
  /\ pc = "extract"
  /\ UNCHANGED aux
  /\ \E o \in LLMOutcomes :
       LET e == ExtractError(o) IN
       IF e = NoExc
         THEN /\ result' = Parsed(o, ExtractionRequired)
              /\ trace' = trace \o <<"extract_call", "extract_return">>
              /\ attempt' = 0
              /\ exc' = [attempt |-> 0, e |-> NoExc]
              /\ pc' = AfterExtract(validate_flag)
              /\ UNCHANGED <<raised, failedAt, response, answered>>
         ELSE /\ trace' = Append(trace, "extract_call")
              /\ Caught(e, "extract_sleep", "extract")
              /\ UNCHANGED <<result, attempt>>
  /\ UNCHANGED <<req, locals, fetched, store, slept>>

\* Mutant of ExtractSleep: the next pass starts without the delay.
ExtractSleep_Skipped ==
  /\ pc = "extract_sleep"
  /\ UNCHANGED aux
  /\ attempt' = attempt + 1
  /\ pc' = "extract"
  /\ UNCHANGED <<req, locals, fetched, result, exc, raised, response, store,
                 failedAt, answered, trace, slept>>

\* analyze_text: time.sleep(self.retry_delay), then the next pass.
ExtractSleep ==
  /\ pc = "extract_sleep"
  /\ UNCHANGED aux
  /\ slept' = slept + retry_delay
  /\ trace' = Append(trace, "extract_sleep")
  /\ attempt' = attempt + 1
  /\ pc' = "extract"
  /\ UNCHANGED <<req, locals, fetched, result, exc, raised, response, store,
                 failedAt, answered>>

\* plotter.validate_json(text, result, metadata): one pass of the for loop;
\* on return, result["validation"] = validation_result.
ValidateAttempt ==
  /\ pc = "validate"
  /\ UNCHANGED aux
  /\ \E o \in LLMOutcomes :
       LET e == ValidateError(o) IN
       IF e = NoExc
         THEN /\ result' = [result EXCEPT !.d =
                   SetItem(result.d, "validation", Parsed(o, ValidationRequired))]
              /\ trace' = trace \o <<"validate_call", "validate_return">>
              /\ attempt' = 0
              /\ exc' = [attempt |-> 0, e |-> NoExc]
              /\ pc' = "add_search"
              /\ UNCHANGED <<raised, failedAt, response, answered>>
         ELSE /\ trace' = Append(trace, "validate_call")
              /\ Caught(e, "validate_sleep", "validate")
              /\ UNCHANGED <<result, attempt>>
  /\ UNCHANGED <<req, locals, fetched, store, slept>>

\* validate_json: time.sleep(self.retry_delay), then the next pass.
ValidateSleep ==
  /\ pc = "validate_sleep"
  /\ UNCHANGED aux
  /\ slept' = slept + retry_delay
  /\ trace' = Append(trace, "validate_sleep")
  /\ attempt' = attempt + 1
  /\ pc' = "validate"
  /\ UNCHANGED <<req, locals, fetched, result, exc, raised, response, store,
                 failedAt, answered>>

\* The row add_search inserts; `by` records the request that wrote it.
SearchRow == [user_id |-> user_id, book_id |-> Str(book_id),
              title |-> metadata["title"], by |-> req]

\* db.add_search: session.add(search); session.commit()
AddSearch ==
  /\ pc = "add_search"
  /\ UNCHANGED aux
  /\ trace' = Append(trace, "insert")
  /\ \/ /\ search_history' = Append(search_history, SearchRow)
        /\ pc' = "drop_view"
        /\ UNCHANGED <<raised, failedAt, response, answered>>
     \/ /\ Fail(OperationalError, "record")
        /\ UNCHANGED search_history
  /\ UNCHANGED <<req, locals, fetched, result, attempt, exc, view_exists, slept>>

\* BookAnalytics.create_view: DROP VIEW IF EXISTS book_analytics; commit
DropView ==
  /\ pc = "drop_view"
  /\ UNCHANGED aux
  /\ trace' = Append(trace, "drop_view")
  /\ \/ /\ view_exists' = FALSE
        /\ pc' = "create_view"
        /\ UNCHANGED <<raised, failedAt, response, answered>>
     \/ /\ Fail(OperationalError, "record")
        /\ UNCHANGED view_exists
  /\ UNCHANGED <<req, locals, fetched, result, attempt, exc, search_history, slept>>

\* BookAnalytics.create_view: CREATE VIEW book_analytics AS ...; commit
CreateView ==
  /\ pc = "create_view"
  /\ UNCHANGED aux
  /\ trace' = Append(trace, "create_view")
  /\ \/ /\ view_exists' = TRUE
        /\ pc' = "respond"
        /\ UNCHANGED <<raised, failedAt, response, answered>>
     \/ /\ Fail(OperationalError, "record")
        /\ UNCHANGED view_exists
  /\ UNCHANGED <<req, locals, fetched, result, attempt, exc, search_history, slept>>

\* analyze: result["title"] = metadata['title']; return jsonify(result)
Respond ==
  /\ pc = "respond"
  /\ UNCHANGED aux
  /\ result' = [result EXCEPT !.d = SetItem(result.d, "title", metadata["title"])]
  /\ Answer([status |-> 200, body |-> result'.d])
  /\ UNCHANGED <<req, locals, fetched, attempt, exc, raised, store, trace,
                 slept, failedAt>>

Next ==
  \/ Receive
  \/ FetchMetadata
  \/ FetchTextPrimary
  \/ FetchTextFallback
  \/ ExtractAttempt
  \/ ExtractSleep
  \/ ValidateAttempt
  \/ ValidateSleep
  \/ AddSearch
  \/ DropView
  \/ CreateView
  \/ Respond

Spec == Init /\ [][Next]_vars

(* ------------------------------ properties ---------------------------- *)

\* Number of occurrences of event x in the trace of the request in hand.
Count(x) == Cardinality({i \in DOMAIN trace : trace[i] = x})

\* The calls and sleeps of one orchestrator, in the order they happened.
Events(call, sleep) == SelectSeq(trace, LAMBDA x : x \in {call, sleep})

\* The request in hand has been answered.
Answered == pc = "idle" /\ req > 0

Is2xx(status) == status \in 200..299

\* The shape of an orchestrator run whose every attempt failed: 5 calls with
\* a sleep between consecutive calls and none after the last.
Exhausted(call, sleep) ==
  /\ Events(call, sleep) = <<call, sleep, call, sleep, call, sleep, call, sleep, call>>
  /\ exc.attempt = 4
  /\ raised = exc.e
  /\ raised # NoExc

\* C1: when every attempt of analyze_text (validate_json) fails, the request
\* has made exactly 5 LLM calls of that orchestrator, separated by exactly 4
\* sleeps of retry_delay each, with no sleep after the fifth failure, and the
\* exception that reaches analyze is the one raised by the fifth attempt; no
\* orchestrator ever sleeps after a fifth call.
C1_RetryExhaustion ==
  /\ (Answered /\ failedAt = "extract") =>
        /\ Exhausted("extract_call", "extract_sleep")
        /\ slept = 4 * retry_delay
  /\ (Answered /\ failedAt = "validate") =>
        /\ Exhausted("validate_call", "validate_sleep")
        /\ slept = (Count("extract_sleep") + 4) * retry_delay
  /\ Count("extract_call") = 5 => pc # "extract_sleep"
  /\ Count("validate_call") = 5 => pc # "validate_sleep"
  /\ Count("extract_call") <= 5 /\ Count("validate_call") <= 5

\* C1 witness: validation has failed on all five attempts, after an
\* extraction that itself needed a retry.
C1_Witness ==
  /\ Answered /\ failedAt = "validate"
  /\ Count("validate_call") = 5
  /\ Count("extract_sleep") = 1
  /\ raised = NoFunctionCall

\* C2: extraction is called only after the metadata fetch and the text fetch
\* have both returned successfully, and validation is called only after
\* extraction has returned its result.
C2_StepOrder ==
  /\ \A i \in DOMAIN trace :
       /\ trace[i] = "extract_call" =>
            /\ \E j \in 1..(i - 1) : trace[j] = "metadata_ok"
            /\ \E j \in 1..(i - 1) : trace[j] = "text_ok"
       /\ trace[i] = "validate_call" =>
            \E j \in 1..(i - 1) : trace[j] = "extract_return"
  /\ pc \in {"extract", "extract_sleep"} =>
       /\ metadata = [title |-> TitleOf(book_id), author |-> AuthorOf(book_id)]
       /\ text \in {Body(book_id, "primary"), Body(book_id, "fallback")}
  /\ pc \in {"validate", "validate_sleep"} =>
       /\ Count("extract_return") = 1
       /\ result.isDict

\* C2 witness: a validation call has been made.
C2_Witness ==
  /\ Count("validate_call") >= 1
  /\ Count("extract_call") >= 2

\* C3: when extraction or validation exhausts its retries, whatever the last
\* cause, the request is answered 500 with the generic message and the text
\* of the cause is not in the response.
C3_ExhaustionAnswers500 ==
  (Answered /\ failedAt \in {"extract", "validate"}) =>
     /\ response.status = 500
     /\ response.body["error"] = GenericMessage
     /\ response.body["error"] # raised.msg

\* C4: a failure of db.add_search (the insert or the recreation of the view)
\* after a successful extraction still answers with the successful result:
\* status 200, the items of the extraction result, and no error field.
C4_RecordFailureStillSucceeds ==
  (Answered /\ failedAt = "record" /\ ExtractionRequired \subseteq DOMAIN result.d) =>
     /\ response.status = 200
     /\ "error" \notin DOMAIN response.body
     /\ \A k \in DOMAIN result.d : k \in DOMAIN response.body

\* C5: a request answered with an error has written no search_history row.
C5_NoRecordOnError ==
  \A q \in 1..req :
    (answered[q].status \notin {0, 200}) =>
       \A i \in DOMAIN search_history : search_history[i].by # q

\* C6: every result returned by extraction is a mapping with characters,
\* relations and summary, and every result returned by validation is a
\* mapping with known_story, issues, notes and score.
C6_ReturnedResultsConform ==
  /\ Count("extract_return") > 0 =>
       /\ result.isDict
       /\ ExtractionRequired \subseteq DOMAIN result.d
  /\ Count("validate_return") > 0 =>
       /\ result.d["validation"].isDict
       /\ ValidationRequired \subseteq DOMAIN result.d["validation"].d

\* C7: when the primary and the fallback URL both answer with a non-success
\* status, fetch_gutenberg_text raises its ValueError after exactly two
\* requests, the primary and then the fallback, and nothing is requested
\* after them.
C7_BothFailTwoRequests ==
  (/\ primary_status # 0 /\ ~Is2xx(primary_status)
   /\ fallback_status # 0 /\ ~Is2xx(fallback_status)) =>
     /\ Answered
     /\ failedAt = "text"
     /\ raised = SourceUnavailable
     /\ trace = <<"get_metadata", "metadata_ok", "get_primary", "get_fallback">>
     /\ text = NoText

\* C7 witness: 404 from the primary URL, then 500 from the fallback URL.
C7_Witness ==
  /\ primary_status = 404
  /\ fallback_status = 500
  /\ response.status = 400

\* The text fetch of the request in hand is over.
TextFetchOver == pc \notin {"fetch_text", "fetch_fallback"}

\* C8 as stated: the fallback URL is requested if and only if the primary
\* status is non-2xx; a 2xx primary status returns the primary body with no
\* fallback request, and a 2xx fallback status returns the fallback body.
C8_FallbackIffNon2xx ==
  /\ (primary_status # 0 /\ Is2xx(primary_status)) =>
        /\ text = Body(book_id, "primary")
        /\ Count("get_fallback") = 0
  /\ (primary_status # 0 /\ ~Is2xx(primary_status) /\ TextFetchOver) =>
        Count("get_fallback") = 1
  /\ Count("get_fallback") > 0 => (primary_status # 0 /\ ~Is2xx(primary_status))
  /\ (fallback_status # 0 /\ Is2xx(fallback_status)) =>
        text = Body(book_id, "fallback")

\* C8 amended: the fallback URL is requested if and only if the primary
\* status is not 200; primary status 200 returns the primary body with no
\* fallback request, and fallback status 200 returns the fallback body; any
\* other fallback status returns no text.
C8_FallbackIffNot200 ==
  /\ primary_status = 200 =>
        /\ text = Body(book_id, "primary")
        /\ Count("get_fallback") = 0
  /\ (primary_status \notin {0, 200} /\ TextFetchOver) =>
        Count("get_fallback") = 1
  /\ Count("get_fallback") > 0 => primary_status \notin {0, 200}
  /\ fallback_status = 200 => text = Body(book_id, "fallback")
  /\ fallback_status \notin {0, 200} => text = NoText

\* C8 witness: the primary URL answers 204, the fallback is requested and
\* its body is the text.
C8_Witness ==
  /\ primary_status = 204
  /\ fallback_status = 200
  /\ text = Body(book_id, "fallback")
  /\ Count("get_fallback") = 1

\* C9: when the metadata page lacks the title or the author marker, the
\* request is answered with a 400-class error, as for an unavailable text.
C9_MissingMarkerAnswers400 ==
  (Answered /\ failedAt = "metadata" /\ raised \in {NoTitleMarker, NoAuthorMarker}) =>
     response.status \in 400..499

\* C10: validation is entered if and only if the validate flag is set, and
\* a successful response carries a validation field exactly when it is.
C10_ValidationIffFlag ==
  /\ (pc \in {"validate", "validate_sleep"} \/ Count("validate_call") > 0) =>
        validate_flag
  /\ (validate_flag /\ Count("extract_return") > 0) =>
        (pc = "validate" \/ Count("validate_call") > 0)
  /\ (Answered /\ response.status = 200) =>
        /\ ("validation" \in DOMAIN response.body) <=> validate_flag
        /\ Count("validate_return") = (IF validate_flag THEN 1 ELSE 0)
        /\ answered[req].validation = validate_flag

\* C10 witness: one request answered 200 with a validation field and the
\* next answered 200 without one.
C10_Witness ==
  /\ req = 2 /\ Answered
  /\ answered[1] = [status |-> 200, validation |-> TRUE]
  /\ response.status = 200 /\ ~validate_flag
  /\ "validation" \notin DOMAIN response.body

\* The shape of an orchestrator run whose k-th attempt is the first to
\* succeed: k calls with a sleep between consecutive calls, the return right
\* after the k-th call, and nothing of that orchestrator after the return.
FirstSuccess(call, sleep, ret) ==
  Count(ret) = 1 =>
    LET ev == SelectSeq(trace, LAMBDA x : x \in {call, sleep, ret})
        k  == Count(call)
    IN /\ k \in 1..5
       /\ Count(sleep) = k - 1
       /\ Len(ev) = 2 * k
       /\ \A i \in 1..(2 * k - 1) : ev[i] = (IF i % 2 = 1 THEN call ELSE sleep)
       /\ ev[2 * k] = ret

\* C16: if attempt k (1 <= k <= 5) is the first of an orchestrator call to
\* succeed, the orchestrator has made exactly k LLM calls and k-1 delays of
\* retry_delay, returns at attempt k, and makes no call or delay afterwards.
C16_FirstSuccessAtK ==
  /\ FirstSuccess("extract_call", "extract_sleep", "extract_return")
  /\ FirstSuccess("validate_call", "validate_sleep", "validate_return")
  /\ Count("extract_return") <= 1 /\ Count("validate_return") <= 1
  /\ Count("extract_return") = 1 => result.isDict
  /\ Count("validate_return") = 1 => "validation" \in DOMAIN result.d
  /\ slept = retry_delay * (Count("extract_sleep") + Count("validate_sleep"))

\* C16 witness: extraction succeeded at its third attempt and validation at
\* its fifth, and the request went on to its answer.
C16_Witness ==
  /\ Answered /\ response.status = 200
  /\ Count("extract_call") = 3 /\ Count("extract_sleep") = 2
  /\ Count("validate_call") = 5 /\ Count("validate_sleep") = 4

\* Requests served in the behaviours checked for termination.
MaxLiveRequests == 1

\* The steps of analyze, for the first MaxLiveRequests requests.
FairNext ==
  \/ req < MaxLiveRequests /\ Receive
  \/ FetchMetadata
  \/ FetchTextPrimary
  \/ FetchTextFallback
  \/ ExtractAttempt
  \/ ExtractSleep
  \/ ValidateAttempt
  \/ ValidateSleep
  \/ AddSearch
  \/ DropView
  \/ CreateView
  \/ Respond

\* Every external call returns: a request handler that can take its next
\* step takes it.
FairSpec == Init /\ [][FairNext]_vars /\ WF_vars(FairNext)

\* The request in hand was let in and is not answered yet.
InFlight(q) == req = q /\ pc # "idle"

\* Request q has its answer.
Terminal(q) == req >= q /\ answered[q].status # 0 /\ (req = q => pc = "idle")

\* C17: with every external call eventually returning, every authenticated
\* analyze request reaches a terminal outcome, after at most 5 extraction
\* and 5 validation calls (10 LLM calls); the outcome is one, never replaced,
\* and an answered request takes no further step: the next step is a new
\* request.
C17_Terminates ==
  /\ [](/\ Count("extract_call") <= max_retries
        /\ Count("validate_call") <= max_retries
        /\ Count("extract_call") + Count("validate_call") <= 2 * max_retries)
  /\ \A q \in 1..MaxLiveRequests : InFlight(q) ~> Terminal(q)
  /\ [][/\ \A q \in 1..MaxRequests :
             answered[q].status # 0 => answered'[q] = answered[q]
        /\ pc = "idle" => req' = req + 1]_vars

\* C17 witness: a request answered after 5 extraction calls and 5 validation
\* calls.
C17_Witness ==
  /\ Answered
  /\ user_id # 0
  /\ Count("extract_call") = max_retries
  /\ Count("validate_call") = max_retries

(* ------------------- analyze requests side by side -------------------- *)
(* The threaded server runs several analyze() calls at once.  Each is   *)
(* followed from `plotter = PlotThePlot(...)` to the return of its last *)
(* orchestrator; their steps interleave freely.                         *)

\* Number of analyze requests running side by side.
NumConcurrent == 2

Running == 1..NumConcurrent

\* os.environ.get('GEMINI_API_KEY')
GEMINI_API_KEY == "GEMINI_API_KEY"

\* PlotThePlot.__init__(api_key, model_name="gemini-2.0-flash")
NewPlotter(api_key) ==
  [api_key |-> api_key, model_name |-> "gemini-2.0-flash",
   max_retries |-> max_retries, retry_delay |-> retry_delay]

\* Mutant of Allocate: one module-level orchestrator serves every request.
Allocate_Singleton(heap) == 1

\* The id of the object a constructor call creates: a fresh one.
Allocate(heap) == Cardinality(DOMAIN heap) + 1

\* create_prompt(text): the instructions followed by the whole text
create_prompt(story) == [instructions |-> "extract", text |-> story]

\* story_text[:8000]: the slice bound
STORY_LIMIT == 8000

\* Mutant of Truncate: the whole story is sent.
Truncate_Nothing(story_text) == story_text

\* story_text[:8000]
Truncate(story_text) ==
  SubSeq(story_text, 1, IF Len(story_text) < STORY_LIMIT
                          THEN Len(story_text) ELSE STORY_LIMIT)

\* json.dumps(generated_json, indent=2): the text listing each key with its
\* value; the argument is only read.
Dumps(generated_json) ==
  {<<k, generated_json[k]>> : k \in DOMAIN generated_json}

\* validate_json: the prompt built from title, author, the story slice and
\* the serialized extraction result.
ValidationPrompt(story_text, generated_json, meta) ==
  [title |-> meta["title"], author |-> meta["author"],
   story |-> Truncate(story_text),
   structured_json |-> Dumps(generated_json)]

\* What the LLM is asked and what it answers: the payload of outcome o to
\* prompt `asked`, under the configured key and the model's name.
Reply(o, required, asked, key, model_name) ==
  [parsed |-> Parsed(o, required), prompt |-> asked, api_key |-> key,
   model_name |-> model_name]

NoReply == Reply("none", {}, EmptyDict, "", "")

\* The story text of book b as analyze() holds it.
StoryOf(b) == <<Body(b, "primary")>>

\* A request about book b that has fetched its metadata and text.
Fetched(b, v) ==
  [pc |-> "construct", book |-> b, text |-> StoryOf(b),
   metadata |-> [title |-> TitleOf(b), author |-> AuthorOf(b)],
   validate_flag |-> v, plotter |-> 0, attempt |-> 0, prompt |-> EmptyDict,
   result |-> NoReply, validation |-> NoReply]

\* Request r is about book r and asks for validation, so both orchestrators
\* run for every request and no two requests share a text.
ConcInit ==
  /\ MainInit
  /\ plotters = EmptyDict
  /\ genai_api_key = ""
  /\ creq = [r \in Running |-> Fetched(r, TRUE)]
  /\ VjIdle
  /\ DbIdle

\* self.<field> read by request r
Self(r) == plotters[creq[r].plotter]

\* plotter = PlotThePlot(api_key=os.environ.get('GEMINI_API_KEY'))
Construct(r) ==
  /\ creq[r].pc = "construct"
  /\ LET id == Allocate(plotters) IN
       /\ plotters' = SetItem(plotters, id, NewPlotter(GEMINI_API_KEY))
       /\ creq' = [creq EXCEPT ![r].plotter = id, ![r].pc = "enter_extract"]
  /\ UNCHANGED <<genai_api_key, outside_conc>>

\* analyze_text up to its loop: genai.configure, the model, the prompt.
EnterExtract(r) ==
  /\ creq[r].pc = "enter_extract"
  /\ genai_api_key' = Self(r).api_key
  /\ creq' = [creq EXCEPT ![r].prompt = create_prompt(creq[r].text),
                          ![r].attempt = 0, ![r].pc = "extract"]
  /\ UNCHANGED <<plotters, outside_conc>>

\* except Exception: `attempt < self.max_retries - 1` of request r's object
SelfRetryAgain(r) == creq[r].attempt < Self(r).max_retries - 1

\* analyze_text: one pass of the loop of request r.
ConcExtractAttempt(r) ==
  /\ creq[r].pc = "extract"
  /\ \E o \in LLMOutcomes :
       IF ExtractError(o) = NoExc
         THEN creq' = [creq EXCEPT
                ![r].result = Reply(o, ExtractionRequired, creq[r].prompt,
                                    genai_api_key, Self(r).model_name),
                ![r].pc = IF creq[r].validate_flag THEN "enter_validate"
                                                   ELSE "done"]
         ELSE creq' = [creq EXCEPT
                ![r].pc = IF SelfRetryAgain(r) THEN "extract_sleep" ELSE "failed"]
  /\ UNCHANGED <<plotters, genai_api_key, outside_conc>>

\* analyze_text: time.sleep(self.retry_delay) of request r.
ConcExtractSleep(r) ==
  /\ creq[r].pc = "extract_sleep"
  /\ creq' = [creq EXCEPT ![r].attempt = @ + 1, ![r].pc = "extract"]
  /\ UNCHANGED <<plotters, genai_api_key, outside_conc>>

\* validate_json up to its loop: genai.configure, the prompt, the model.
EnterValidate(r) ==
  /\ creq[r].pc = "enter_validate"
  /\ genai_api_key' = Self(r).api_key
  /\ creq' = [creq EXCEPT
        ![r].prompt = ValidationPrompt(creq[r].text, creq[r].result.parsed.d,
                                       creq[r].metadata),
        ![r].attempt = 0, ![r].pc = "validate"]
  /\ UNCHANGED <<plotters, outside_conc>>

\* validate_json: one pass of the loop of request r.
ConcValidateAttempt(r) ==
  /\ creq[r].pc = "validate"
  /\ \E o \in LLMOutcomes :
       IF ValidateError(o) = NoExc
         THEN creq' = [creq EXCEPT
                ![r].validation = Reply(o, ValidationRequired, creq[r].prompt,
                                        genai_api_key, Self(r).model_name),
                ![r].pc = "done"]
         ELSE creq' = [creq EXCEPT
                ![r].pc = IF SelfRetryAgain(r) THEN "validate_sleep" ELSE "failed"]
  /\ UNCHANGED <<plotters, genai_api_key, outside_conc>>

\* validate_json: time.sleep(self.retry_delay) of request r.
ConcValidateSleep(r) ==
  /\ creq[r].pc = "validate_sleep"
  /\ creq' = [creq EXCEPT ![r].attempt = @ + 1, ![r].pc = "validate"]
  /\ UNCHANGED <<plotters, genai_api_key, outside_conc>>

ConcNext ==
  \E r \in Running :
    \/ Construct(r)
    \/ EnterExtract(r)
    \/ ConcExtractAttempt(r)
    \/ ConcExtractSleep(r)
    \/ EnterValidate(r)
    \/ ConcValidateAttempt(r)
    \/ ConcValidateSleep(r)

ConcSpec == ConcInit /\ [][ConcNext]_vars

\* The reply request r obtains running alone: the answer to its own prompt
\* under the key and model of its own orchestrator.
OwnExtraction(r) ==
  /\ creq[r].result.prompt = create_prompt(StoryOf(creq[r].book))
  /\ creq[r].result.api_key = GEMINI_API_KEY
  /\ creq[r].result.model_name = "gemini-2.0-flash"

OwnValidation(r) ==
  /\ creq[r].validation.prompt =
       ValidationPrompt(StoryOf(creq[r].book), creq[r].result.parsed.d,
                        [title |-> TitleOf(creq[r].book),
                         author |-> AuthorOf(creq[r].book)])
  /\ creq[r].validation.api_key = GEMINI_API_KEY
  /\ creq[r].validation.model_name = "gemini-2.0-flash"

\* In every state: each orchestrator holds the fields its constructor set,
\* no two requests hold the same orchestrator, and every result is the
\* request's own.
ConcIndependent ==
  /\ \A id \in DOMAIN plotters :
       plotters[id] = [api_key |-> GEMINI_API_KEY, model_name |-> "gemini-2.0-flash",
                       max_retries |-> 5, retry_delay |-> 5]
  /\ \A r1, r2 \in Running :
       (r1 # r2 /\ creq[r1].plotter # 0 /\ creq[r2].plotter # 0) =>
          creq[r1].plotter # creq[r2].plotter
  /\ \A r \in Running :
       /\ creq[r].pc \in {"enter_validate", "validate", "validate_sleep", "done"}
            => OwnExtraction(r)
       /\ (creq[r].pc = "done" /\ creq[r].validate_flag) => OwnValidation(r)
       /\ creq[r].attempt \in 0..4

\* C11: for any interleaving of concurrent analyze requests, no orchestrator
\* field (api_key, model_name, max_retries, retry_delay) is written after
\* construction, no orchestrator is shared between requests, and the
\* extraction and validation result of each request is the one it obtains
\* running alone.
C11_ReentrantOrchestrators ==
  /\ []ConcIndependent
  /\ [][\A id \in DOMAIN plotters :
          id \in DOMAIN plotters' /\ plotters'[id] = plotters[id]]_vars

\* C11 witness: two requests about different books have both finished
\* extraction and validation, the second constructed while the first ran.
C11_Witness ==
  /\ creq[1].pc = "done" /\ creq[2].pc = "done"
  /\ creq[1].validate_flag /\ creq[2].validate_flag
  /\ creq[1].book # creq[2].book
  /\ creq[1].plotter = 2 /\ creq[2].plotter = 1

(* ----------------------- validate_json on its own ---------------------- *)
(* validate_json(story_text, generated_json, metadata) invoked again and *)
(* again by a caller that passes the same three objects each time.       *)

\* Invocations of validate_json with the same arguments.
MaxInvocations == 2

\* Story lengths go up to STORY_LIMIT + MaxExcess characters.
MaxExcess == 2

\* A story of n characters; the character at a position depends on it.
Story(n) == [i \in 1..n |-> i % 7]

StoryLengths == {0, 1, STORY_LIMIT - 1} \cup {STORY_LIMIT + x : x \in 0..MaxExcess}

\* Mutant of InputAfterValidate: the verdict is stored into the argument.
InputAfterValidate_Attached(generated_json, parsed) ==
  SetItem(generated_json, "validation", parsed)

\* generated_json after `return parsed`: validate_json assigns nothing to it.
InputAfterValidate(generated_json, parsed) == generated_json

VjInit ==
  /\ MainInit
  /\ ConcIdle
  /\ DbIdle
  /\ \E n \in StoryLengths, o \in {"full_object", "partial_object"},
        b \in 1..MaxBookId :
       /\ vj_args = [story_text |-> Story(n),
                     generated_json |-> Parsed(o, ExtractionRequired).d,
                     metadata |-> [title |-> TitleOf(b), author |-> AuthorOf(b)]]
       /\ vj_hist = [invocations |-> 0, sent |-> <<>>,
                     before |-> Parsed(o, ExtractionRequired).d]
  /\ vj = [pc |-> "enter", attempt |-> 0, prompt |-> EmptyDict,
           returned |-> NoValue]

\* validate_json up to its loop: genai.configure, the prompt, the model.
VjEnter ==
  /\ vj["pc"] = "enter"
  /\ vj' = [vj EXCEPT !["pc"] = "loop", !["attempt"] = 0,
              !["prompt"] = ValidationPrompt(vj_args["story_text"],
                                vj_args["generated_json"], vj_args["metadata"])]
  /\ vj_hist' = [vj_hist EXCEPT !["invocations"] = @ + 1, !["sent"] = <<>>]
  /\ UNCHANGED <<vj_args, outside_vj>>

\* validate_json: one pass of the loop; the prompt goes to the LLM.
VjAttempt ==
  /\ vj["pc"] = "loop"
  /\ vj_hist' = [vj_hist EXCEPT !["sent"] = Append(@, vj["prompt"])]
  /\ \E o \in LLMOutcomes :
       IF ValidateError(o) = NoExc
         THEN /\ vj' = [vj EXCEPT !["pc"] = "returned",
                          !["returned"] = Parsed(o, ValidationRequired)]
              /\ vj_args' = [vj_args EXCEPT !["generated_json"] =
                    InputAfterValidate(@, Parsed(o, ValidationRequired))]
         ELSE /\ vj' = [vj EXCEPT !["pc"] =
                    IF RetryAgain(vj["attempt"]) THEN "sleep" ELSE "raised"]
              /\ UNCHANGED vj_args
  /\ UNCHANGED outside_vj

\* validate_json: time.sleep(self.retry_delay), then the next pass.
VjSleep ==
  /\ vj["pc"] = "sleep"
  /\ vj' = [vj EXCEPT !["pc"] = "loop", !["attempt"] = @ + 1]
  /\ UNCHANGED <<vj_args, vj_hist, outside_vj>>

\* The caller invokes validate_json again with the same three objects.
VjAgain ==
  /\ vj["pc"] \in {"returned", "raised"}
  /\ vj_hist["invocations"] < MaxInvocations
  /\ vj' = [vj EXCEPT !["pc"] = "enter"]
  /\ UNCHANGED <<vj_args, vj_hist, outside_vj>>

VjNext ==
  \/ VjEnter
  \/ VjAttempt
  \/ VjSleep
  \/ VjAgain

VjSpec == VjInit /\ [][VjNext]_vars

\* C12: validate_json leaves its input ExtractionResult unchanged: after any
\* number of invocations with the same (text, result, metadata), returned or
\* raised, the result has the keys and values it had before the first.
C12_InputUnchanged ==
  /\ DOMAIN vj_args["generated_json"] = DOMAIN vj_hist["before"]
  /\ \A k \in DOMAIN vj_hist["before"] :
       vj_args["generated_json"][k] = vj_hist["before"][k]
  /\ "validation" \notin DOMAIN vj_args["generated_json"]

\* C12 witness: the second invocation on a full extraction result has
\* returned a verdict at its third attempt.
C12_Witness ==
  /\ vj_hist["invocations"] = 2
  /\ vj["pc"] = "returned"
  /\ vj["returned"].isDict
  /\ vj["attempt"] = 2
  /\ DOMAIN vj_args["generated_json"] = ExtractionRequired

\* C13: the story segment of the validation prompt is exactly the prefix of
\* the text of length min(len(text), 8000), and every attempt of an
\* invocation sends that same prompt.
C13_PromptStoryIsPrefix ==
  vj["pc"] # "enter" =>
    LET story == vj["prompt"]["story"]
        text_ == vj_args["story_text"]
    IN /\ Len(story) = (IF Len(text_) < 8000 THEN Len(text_) ELSE 8000)
       /\ \A i \in 1..Len(story) : story[i] = text_[i]
       /\ vj["prompt"]["structured_json"] = Dumps(vj_hist["before"])
       /\ Len(vj_hist["sent"]) \in {vj["attempt"], vj["attempt"] + 1}
       /\ \A i \in 1..Len(vj_hist["sent"]) : vj_hist["sent"][i] = vj["prompt"]

\* C13 witness: a story of more than 8000 characters whose prompt, cut to
\* 8000, has been sent on all five attempts.
C13_Witness ==
  /\ Len(vj_args["story_text"]) > 8000
  /\ vj["pc"] = "raised"
  /\ Len(vj_hist["sent"]) = 5
  /\ Len(vj["prompt"]["story"]) = 8000

(* --------------------- the Database object, threaded ------------------- *)
(* Request threads call db.add_search and db.get_trending_books on the   *)
(* one Database object; SQLite runs each statement atomically and the    *)
(* statements of different threads interleave.                           *)

\* Searches recorded in one behaviour.
MaxRows == 3

\* get_trending_books is called with limit in 0..MaxLimit.
MaxLimit == 2

\* Two request threads of the server share the Database object.
Threads == {"thread_1", "thread_2"}

\* The largest element of a non-empty set of numbers.
MaxOf(S) == CHOOSE x \in S : \A y \in S : y <= x

\* SearchHistory(user_id, book_id, title), search_date = datetime.utcnow()
HistoryRow(u, b, now) ==
  [user_id |-> u, book_id |-> Str(b), title |-> TitleOf(b), search_date |-> now]

\* The rows of view book_analytics:
\* SELECT book_id, title, COUNT(*), MAX(search_date) ... GROUP BY book_id, title
BookAnalyticsRows(rows) ==
  LET groups == {<<rows[i].book_id, rows[i].title>> : i \in DOMAIN rows}
      of(g) == {i \in DOMAIN rows : rows[i].book_id = g[1] /\ rows[i].title = g[2]}
  IN {[book_id |-> g[1], title |-> g[2],
       search_count |-> Cardinality(of(g)),
       last_searched |-> MaxOf({rows[i].search_date : i \in of(g)})] : g \in groups}

\* Mutant of Before: the order looks at search_count only.
Before_CountOnly(a, b) == a.search_count >= b.search_count

\* order_by(search_count.desc(), last_searched.desc()): a may precede b
Before(a, b) ==
  \/ a.search_count > b.search_count
  \/ a.search_count = b.search_count /\ a.last_searched >= b.last_searched

\* The orders in which the database may return the set E under order_by.
Ordered(E) ==
  {f \in [1..Cardinality(E) -> E] :
     /\ \A i, j \in DOMAIN f : i # j => f[i] # f[j]
     /\ \A i, j \in DOMAIN f : i < j => Before(f[i], f[j])}

\* .limit(limit)
Limit(seq, limit) == SubSeq(seq, 1, IF Len(seq) < limit THEN Len(seq) ELSE limit)

DbInit ==
  /\ MainInit
  /\ ConcIdle
  /\ VjIdle
  /\ clock = 0
  /\ dbt = [t \in Threads |-> "idle"]
  /\ trending = [asked |-> FALSE, limit |-> 0, rows |-> <<>>, seen |-> 0, error |-> ""]
  /\ db_outcome = [committed |-> FALSE, error |-> ""]

\* add_search by thread t: session.add(search); session.commit().  The
\* clock may have advanced since the previous insert.
DbInsert(t) ==
  /\ dbt[t] = "idle"
  /\ Len(search_history) < MaxRows
  /\ \E u \in Users, b \in 1..MaxBookId, now \in {clock, clock + 1} :
       /\ clock' = now
       /\ search_history' = Append(search_history, HistoryRow(u, b, now))
  /\ dbt' = [dbt EXCEPT ![t] = "drop_view"]
  /\ UNCHANGED <<view_exists, trending, db_outcome, outside_db>>

\* create_view by thread t: DROP VIEW IF EXISTS book_analytics; commit
DbDropView(t) ==
  /\ dbt[t] = "drop_view"
  /\ view_exists' = FALSE
  /\ dbt' = [dbt EXCEPT ![t] = "create_view"]
  /\ UNCHANGED <<search_history, clock, trending, db_outcome, outside_db>>

\* create_view by thread t: CREATE VIEW book_analytics AS ...; commit.
\* SQLite refuses to create a view that exists; create_view re-raises and
\* add_search ends with that exception.
DbCreateView(t) ==
  /\ dbt[t] = "create_view"
  /\ IF view_exists
       THEN /\ db_outcome' = [committed |-> TRUE,
                              error |-> "view book_analytics already exists"]
            /\ UNCHANGED view_exists
       ELSE /\ db_outcome' = [committed |-> TRUE, error |-> ""]
            /\ view_exists' = TRUE
  /\ dbt' = [dbt EXCEPT ![t] = "idle"]
  /\ UNCHANGED <<search_history, clock, trending, outside_db>>

\* get_trending_books(limit) by thread t: one SELECT on the view.
DbGetTrending(t) ==
  /\ dbt[t] = "idle"
  /\ \E limit \in 0..MaxLimit :
       IF view_exists
         THEN \E f \in Ordered(BookAnalyticsRows(search_history)) :
                trending' = [asked |-> TRUE, limit |-> limit, rows |-> Limit(f, limit),
                             seen |-> Len(search_history), error |-> ""]
         ELSE trending' = [asked |-> TRUE, limit |-> limit, rows |-> <<>>,
                           seen |-> Len(search_history),
                           error |-> "no such table: book_analytics"]
  /\ UNCHANGED <<store, clock, dbt, db_outcome, outside_db>>

DbNext ==
  \E t \in Threads :
    \/ DbInsert(t)
    \/ DbDropView(t)
    \/ DbCreateView(t)
    \/ DbGetTrending(t)

DbSpec == DbInit /\ [][DbNext]_vars

\* The searches recorded when the latest trending query ran.
Seen == SubSeq(search_history, 1, trending.seen)

SearchesOf(book) == {i \in DOMAIN Seen : Seen[i].book_id = book}

C15_ViewAlwaysThere ==
  /\ trending.error = ""
  /\ ~(db_outcome.committed /\ db_outcome.error # "")

=============================================================================
